---------------------------- MODULE Spec2Model ----------------------------
(***************************************************************************)
(* Commodity quotes: the Alpha Vantage proxy (api/commodities.js), the     *)
(* client service (src/services/alpha-vantage-commodities.ts) and its      *)
(* earlier revision (unnamed/part_001), and the panel that shows the       *)
(* quotes (unnamed/part_000).                                              *)
(*                                                                         *)
(* Conventions of the model                                                *)
(*  - a JavaScript number that may be NaN is <<>> (NaN) or <<n>>;          *)
(*    a nullable value is <<>> (null / undefined) or <<v>>;                *)
(*  - a price is an integer count of hundredths (72.50 is 7250);           *)
(*  - a percentage is an exact rational <<num, den>> in lowest terms with  *)
(*    den > 0 (floating-point rounding is not modelled);                   *)
(*  - a Date is its getTime(): <<ms>>, or <<>> for an Invalid Date;        *)
(*  - a string that is parsed (a value) is a sequence of characters.       *)
(***************************************************************************)
EXTENDS Integers, Sequences, FiniteSets, TLC

VARIABLES
    \* --- a call of a quote builder ---
    qPc,        \* "off" | "ready" | "done"
    qImpl,      \* the builder called: "proxy" | "client" | "legacy"
    qId,        \* the symbol the quote is built for
    qSeries,    \* the caller's array, before and after the call
    qQuote,     \* <<>> before the call, <<quote>> after it
    \* --- a call of parseAlphaVantageResponse ---
    pPc,        \* "off" | "ready" | "done"
    pImpl,      \* "proxy" | "client"
    pRaw,       \* the argument
    pPoints,    \* the array returned
    \* --- one per-symbol fetch ---
    fPc,        \* "off" | "pending" | "settled"
    fImpl,      \* "proxy" (fetchOneCommodity) | "client" (fetchCommodityTimeSeries)
    fRealApi,   \* whether the client has a credential
    fRes,       \* the provider's response
    fResult,    \* <<>> while pending, then <<[points, parsed]>>
    \* --- a request to the handler of the proxy ---
    hPc,        \* "off" | "received" | "fetching" | "debugFetching" | "responded"
    hReq,       \* [method, query]
    hEnv,       \* [vite, alpha]: the two environment variables
    hIssued,    \* the symbols fetched from the provider so far, in order
    hPending,   \* the positions of the fetches that are not settled
    hProv,      \* per position, <<>> or <<the provider's answer>>
    hResults,   \* per position, <<>> or <<the points of the fetch result>>, as Promise.all holds them
    hResponse,  \* <<>> or <<the Response returned>>
    \* --- a call of getAllCommodityQuotesMock of the client ---
    mPc,        \* "off" | "calling" | "fallback" | "settled"
    mEndpoint,  \* the response of the inbound endpoint /api/commodities
    mRealApi,   \* whether the client has a credential
    mPending,   \* the positions of the fallback fetches that are not settled
    mSeries,    \* per position, <<>> or <<the series of that symbol>>
    mResult,    \* <<>> or <<how the returned promise settled>>
    \* --- a PredictionTabsPanel ---
    tPc,        \* "off" | "shown"
    activeTab,      \* this.activeTab
    latestQuotes,   \* this.latestQuotes
    tabBody,        \* the innerHTML of the [data-tab-body] element
    tabButtons      \* per tab button, whether it has the class active

qvars == <<qPc, qImpl, qId, qSeries, qQuote>>
pvars == <<pPc, pImpl, pRaw, pPoints>>
fvars == <<fPc, fImpl, fRealApi, fRes, fResult>>
hvars == <<hPc, hReq, hEnv, hIssued, hPending, hProv, hResults, hResponse>>

mvars == <<mPc, mEndpoint, mRealApi, mPending, mSeries, mResult>>
tvars == <<tPc, activeTab, latestQuotes, tabBody, tabButtons>>

vars == <<qvars, pvars, fvars, hvars, mvars, tvars>>

----------------------------------------------------------------------------
(* Bounds of the model *)

\* longest series handed to the quote builder
MaxSeriesLen == 3

\* most rows of a flat list, most entries of a keyed-by-date map
MaxRecords == 2

\* most quotes in a list handed to the panel
MaxQuotes == 2

----------------------------------------------------------------------------
(* Values *)

Null == <<>>
NaN == <<>>
Some(v) == <<v>>

Abs(n) == IF n < 0 THEN -n ELSE n

RECURSIVE GCD(_, _)
GCD(a, b) == IF b = 0 THEN a ELSE GCD(b, a % b)

\* the exact value n / d, d # 0, in lowest terms with a positive denominator
Ratio(n, d) ==
    LET g == GCD(Abs(n), Abs(d))
        s == IF d < 0 THEN -1 ELSE 1
    IN  <<(s * n) \div g, (s * d) \div g>>

COMMODITY_IDS == <<"WTI", "BRENT", "NATGAS", "GOLD", "SILVER", "COPPER", "WHEAT">>

META ==
    [WTI    |-> [displayName |-> "WTI Crude",   alphaFunction |-> "WTI"],
     BRENT  |-> [displayName |-> "Brent Crude", alphaFunction |-> "BRENT"],
     NATGAS |-> [displayName |-> "Natural Gas", alphaFunction |-> "NATURAL_GAS"],
     GOLD   |-> [displayName |-> "Gold",        alphaFunction |-> "GOLD"],
     SILVER |-> [displayName |-> "Silver",      alphaFunction |-> "SILVER"],
     COPPER |-> [displayName |-> "Copper",      alphaFunction |-> "COPPER"],
     WHEAT  |-> [displayName |-> "Wheat",       alphaFunction |-> "WHEAT"]]

oneHourMs == 3600 * 1000
oneDayMs == 24 * 3600 * 1000

Point(ts, price) == [timestamp |-> ts, price |-> price]

----------------------------------------------------------------------------
(* JSON values, as res.json() returns them *)

JUndefined == [t |-> "undefined"]
JNull == [t |-> "null"]
JNum(n) == [t |-> "num", n |-> n]
\* s: the string's characters
JStr(s) == [t |-> "str", s |-> s]
\* a: the elements
JArr(a) == [t |-> "arr", a |-> a]
\* o: the properties [k |-> key, v |-> value] in insertion order, keys distinct
JObj(o) == [t |-> "obj", o |-> o]
Prop(k, v) == [k |-> k, v |-> v]

S_data == <<"d", "a", "t", "a">>
S_TimeSeries == <<"T", "i", "m", "e", " ", "S", "e", "r", "i", "e", "s">>
S_TimeSeriesDaily == <<"T", "i", "m", "e", " ", "S", "e", "r", "i", "e", "s", " ", "(", "D", "a", "i", "l", "y", ")">>
S_MetaData == <<"M", "e", "t", "a", " ", "D", "a", "t", "a">>
S_metadata == <<"m", "e", "t", "a", "d", "a", "t", "a">>
S_Note == <<"N", "o", "t", "e">>
S_name == <<"n", "a", "m", "e">>
S_date == <<"d", "a", "t", "e">>
S_value == <<"v", "a", "l", "u", "e">>
S_close == <<"c", "l", "o", "s", "e">>
S_4close == <<"4", ".", " ", "c", "l", "o", "s", "e">>
S_5close == <<"5", ".", " ", "c", "l", "o", "s", "e">>

\* typeof v
typeOf(v) ==
    CASE v.t = "undefined" -> "undefined"
      [] v.t = "num" -> "number"
      [] v.t = "str" -> "string"
      [] v.t \in {"null", "arr", "obj"} -> "object"

\* the truthiness of v in a condition: no number of the model is 0 or NaN
\* as a whole payload, row or nested record
truthy(v) ==
    CASE v.t \in {"undefined", "null"} -> FALSE
      [] v.t = "num" -> v.n # 0
      [] v.t = "str" -> v.s # <<>>
      [] v.t \in {"arr", "obj"} -> TRUE

isNullish(v) == v.t \in {"undefined", "null"}

\* a ?? b
nullish(a, b) == IF isNullish(a) THEN b ELSE a

\* v[key] for a string key: undefined when v has no such property (an array
\* has only its indices and length)
get(v, key) ==
    IF v.t = "obj" /\ \E i \in 1..Len(v.o) : v.o[i].k = key
    THEN v.o[CHOOSE i \in 1..Len(v.o) : v.o[i].k = key].v
    ELSE JUndefined

\* key in v, for an object or array v
hasKey(v, key) == v.t = "obj" /\ \E i \in 1..Len(v.o) : v.o[i].k = key

indexKey(i) == <<<<"0", "1", "2", "3", "4", "5", "6", "7", "8", "9">>[i + 1]>>

\* Object.keys(v) of a non-null v: the indices of an array or of a string,
\* the keys of an object in insertion order (no key of the model is an
\* integer index), nothing for a number
objectKeys(v) ==
    CASE v.t = "obj" -> [i \in 1..Len(v.o) |-> v.o[i].k]
      [] v.t = "arr" -> [i \in 1..Len(v.a) |-> indexKey(i - 1)]
      [] v.t = "str" -> [i \in 1..Len(v.s) |-> indexKey(i - 1)]
      [] v.t = "num" -> <<>>

\* Object.entries(v) of an object
objectEntries(v) == v.o

startsWith(s, prefix) ==
    Len(s) >= Len(prefix) /\ SubSeq(s, 1, Len(prefix)) = prefix

\* keys.find(pred), wanted being the keys that pred holds of: <<>>
\* (undefined) or <<the first such key>>
RECURSIVE findKey(_, _, _)
findKey(keys, wanted, i) ==
    IF i > Len(keys) THEN <<>>
    ELSE IF keys[i] \in wanted THEN <<keys[i]>>
    ELSE findKey(keys, wanted, i + 1)

\* the elements of an array
elements(a) == {a[i] : i \in 1..Len(a)}

----------------------------------------------------------------------------
(* parseFloat, Number, new Date *)

Digits == {"0", "1", "2", "3", "4", "5", "6", "7", "8", "9"}
digitValue(c) ==
    CHOOSE d \in 0..9 : <<"0", "1", "2", "3", "4", "5", "6", "7", "8", "9">>[d + 1] = c

RECURSIVE digitRun(_, _)
\* how many digits s holds from position i on
digitRun(s, i) ==
    IF i <= Len(s) /\ s[i] \in Digits THEN 1 + digitRun(s, i + 1) ELSE 0

RECURSIVE digitsValue(_, _, _)
\* the number the n digits of s from position i spell
digitsValue(s, i, n) ==
    IF n = 0 THEN 0
    ELSE digitsValue(s, i, n - 1) * 10 + digitValue(s[i + n - 1])

RECURSIVE skipSpaces(_, _)
skipSpaces(s, i) ==
    IF i <= Len(s) /\ s[i] = " " THEN skipSpaces(s, i + 1) ELSE i

\* parseFloat(s) in hundredths: the longest prefix (after white space) that
\* is a decimal literal, sign? digits [. digits] | sign? . digits; NaN when
\* there is none.  Exponents and "Infinity" are not in the model's strings,
\* and a third decimal is below its resolution.
parseFloatStr(s) ==
    LET i0 == skipSpaces(s, 1)
        signed == i0 <= Len(s) /\ s[i0] \in {"+", "-"}
        sign == IF signed /\ s[i0] = "-" THEN -1 ELSE 1
        i1 == IF signed THEN i0 + 1 ELSE i0
        nInt == digitRun(s, i1)
        dot == i1 + nInt <= Len(s) /\ s[i1 + nInt] = "."
        nFrac == IF dot THEN digitRun(s, i1 + nInt + 1) ELSE 0
        f1 == IF nFrac >= 1 THEN digitValue(s[i1 + nInt + 1]) ELSE 0
        f2 == IF nFrac >= 2 THEN digitValue(s[i1 + nInt + 2]) ELSE 0
    IN  IF nInt = 0 /\ nFrac = 0 THEN NaN
        ELSE Some(sign * (digitsValue(s, i1, nInt) * 100 + f1 * 10 + f2))

\* parseFloat(v) of a JSON value: a number's string spells the number,
\* "null", "undefined" and "[object Object]" spell none
parseFloat(v) ==
    CASE v.t = "num" -> Some(v.n)
      [] v.t = "str" -> parseFloatStr(v.s)
      [] v.t \in {"null", "undefined", "obj"} -> NaN

\* Number(v) of a value that is not a string
toNumber(v) ==
    CASE v.t = "num" -> Some(v.n)
      [] v.t = "null" -> Some(0)
      [] v.t \in {"undefined", "obj"} -> NaN

isLeapYear(y) == (y % 4 = 0 /\ y % 100 # 0) \/ y % 400 = 0

daysInMonth(y, m) ==
    IF m = 2 THEN (IF isLeapYear(y) THEN 29 ELSE 28)
    ELSE IF m \in {4, 6, 9, 11} THEN 30 ELSE 31

\* days from 1970-01-01 to the civil date y-m-d
daysFromCivil(y, m, d) ==
    LET yy == IF m <= 2 THEN y - 1 ELSE y
        era == yy \div 400
        yoe == yy - era * 400
        mp == IF m > 2 THEN m - 3 ELSE m + 9
        doy == (153 * mp + 2) \div 5 + d - 1
        doe == yoe * 365 + yoe \div 4 - yoe \div 100 + doy
    IN  era * 146097 + doe - 719468

\* new Date(s).getTime() of a date-only string: "YYYY-MM-DD" is midnight
\* UTC of that day; the other strings of the model ("" and words) are
\* Invalid Dates
newDate(s) ==
    IF /\ Len(s) = 10 /\ s[5] = "-" /\ s[8] = "-"
       /\ digitRun(s, 1) = 4 /\ digitRun(s, 6) = 2 /\ digitRun(s, 9) = 2
    THEN LET y == digitsValue(s, 1, 4)
             m == digitsValue(s, 6, 2)
             d == digitsValue(s, 9, 2)
         IN  IF m \in 1..12 /\ d \in 1..daysInMonth(y, m)
             THEN Some(daysFromCivil(y, m, d) * oneDayMs)
             ELSE NaN
    ELSE NaN

----------------------------------------------------------------------------
(* computeChangePct *)

\* a mutant: the zero guard is missing, the division by zero yields no number
computeChangePctNoZeroGuard(now, past) ==
    IF past = Null THEN Null
    ELSE IF past[1] = 0 THEN Some("Infinity")
    ELSE Ratio((now - past[1]) * 100, past[1])

\* now: a price; past: a price <<p>> or null
computeChangePct(now, past) ==
    IF past = Null \/ past = Some(0) THEN Null
    ELSE Ratio((now - past[1]) * 100, past[1])

----------------------------------------------------------------------------
(* Array.prototype.sort((a, b) => a.timestamp.getTime() - b.timestamp.getTime()) *)

\* the comparator's result: <<n>>, or NaN when either Date is invalid
compareByTimestamp(a, b) ==
    IF a.timestamp = NaN \/ b.timestamp = NaN THEN NaN
    ELSE Some(a.timestamp[1] - b.timestamp[1])

RECURSIVE InsertStable(_, _)
\* p goes after every element that is not later than it (stability)
InsertStable(sorted, p) ==
    IF sorted = <<>> THEN <<p>>
    ELSE LET last == sorted[Len(sorted)]
         IN  IF compareByTimestamp(last, p)[1] <= 0
             THEN Append(sorted, p)
             ELSE Append(InsertStable(SubSeq(sorted, 1, Len(sorted) - 1), p), last)

RECURSIVE StableSort(_)
StableSort(s) ==
    IF s = <<>> THEN <<>>
    ELSE InsertStable(StableSort(SubSeq(s, 1, Len(s) - 1)), s[Len(s)])

ArrayPermutations(s) ==
    LET n == Len(s)
        bij == {f \in [1..n -> 1..n] : \A i, j \in 1..n : i # j => f[i] # f[j]}
    IN  {[i \in 1..n |-> s[f[i]]] : f \in bij}

\* a mutant: the series is taken as it is given
sortByTimestampMissing(s) == s

\* the quote builders' sort: their series hold valid timestamps only
sortByTimestamp(s) == StableSort(s)

\* The arrays sort may leave.  With valid timestamps the comparator is
\* consistent and the (stable) order is unique; with an Invalid Date it
\* returns NaN and the order is implementation-defined.
SortOutcomes(s) ==
    IF \A i \in 1..Len(s) : s[i].timestamp # NaN
    THEN {StableSort(s)}
    ELSE ArrayPermutations(s)

----------------------------------------------------------------------------
(* findClosest: the closure of the quote builders *)

RECURSIVE findClosestFromNoAbs(_, _, _, _, _)
\* a mutant: the distance is signed (Math.abs is missing)
findClosestFromNoAbs(sorted, target, i, best, bestDiff) ==
    IF i > Len(sorted) THEN best
    ELSE LET p == sorted[i]
             diff == IF p.timestamp = NaN \/ target = NaN THEN NaN
                     ELSE Some(p.timestamp[1] - target[1])
             better == diff # NaN /\ (bestDiff = <<>> \/ diff[1] < bestDiff[1])
         IN  IF better
             THEN findClosestFromNoAbs(sorted, target, i + 1, Some(p), diff)
             ELSE findClosestFromNoAbs(sorted, target, i + 1, best, bestDiff)

RECURSIVE findClosestFromLastTie(_, _, _, _, _)
\* a mutant: a point as near as the best so far replaces it (<= for <)
findClosestFromLastTie(sorted, target, i, best, bestDiff) ==
    IF i > Len(sorted) THEN best
    ELSE LET p == sorted[i]
             diff == IF p.timestamp = NaN \/ target = NaN THEN NaN
                     ELSE Some(Abs(p.timestamp[1] - target[1]))
             better == diff # NaN /\ (bestDiff = <<>> \/ diff[1] <= bestDiff[1])
         IN  IF better
             THEN findClosestFromLastTie(sorted, target, i + 1, Some(p), diff)
             ELSE findClosestFromLastTie(sorted, target, i + 1, best, bestDiff)

RECURSIVE findClosestFrom(_, _, _, _, _)
\* the for-loop over sorted from index i, with best (null or <<p>>) and
\* bestDiff (<<>> for Infinity, or <<d>>)
findClosestFrom(sorted, target, i, best, bestDiff) ==
    IF i > Len(sorted) THEN best
    ELSE LET p == sorted[i]
             diff == IF p.timestamp = NaN \/ target = NaN THEN NaN
                     ELSE Some(Abs(p.timestamp[1] - target[1]))
             better == diff # NaN /\ (bestDiff = <<>> \/ diff[1] < bestDiff[1])
         IN  IF better
             THEN findClosestFrom(sorted, target, i + 1, Some(p), diff)
             ELSE findClosestFrom(sorted, target, i + 1, best, bestDiff)

\* a mutant: the anchor itself is never a reference point
findClosestNotAnchor(sorted, nowTs, deltaMs) ==
    IF Len(sorted) <= 1 THEN Null
    ELSE findClosestFrom(SubSeq(sorted, 1, Len(sorted) - 1),
                         Some(nowTs[1] - deltaMs), 1, Null, <<>>)

findClosest(sorted, nowTs, deltaMs) ==
    LET target == IF nowTs = NaN THEN NaN ELSE Some(nowTs[1] - deltaMs)
    IN  findClosestFrom(sorted, target, 1, Null, <<>>)

priceOf(p) == IF p = Null THEN Null ELSE Some(p[1].price)

----------------------------------------------------------------------------
(* The quote builders, given the array the sort left *)

emptyQuote(id) ==
    [id |-> id, displayName |-> META[id].displayName, currentPrice |-> Null,
     change1hPct |-> Null, change4hPct |-> Null, change24hPct |-> Null]

\* api/commodities.js buildQuote, after line 65
buildQuoteSorted(id, sorted) ==
    LET nowPoint == sorted[Len(sorted)]
        p1d == findClosest(sorted, nowPoint.timestamp, 1 * oneDayMs)
        p4d == findClosest(sorted, nowPoint.timestamp, 4 * oneDayMs)
    IN  [id |-> id, displayName |-> META[id].displayName,
         currentPrice |-> Some(nowPoint.price),
         change1hPct |-> Null,
         change4hPct |-> IF p4d # Null THEN computeChangePct(nowPoint.price, priceOf(p4d)) ELSE Null,
         change24hPct |-> IF p1d # Null THEN computeChangePct(nowPoint.price, priceOf(p1d)) ELSE Null]

\* client service buildCommodityQuoteFromSeries, after line 139
buildCommodityQuoteFromSorted(id, sorted) ==
    LET nowPoint == sorted[Len(sorted)]
        nowTs == nowPoint.timestamp
        p1d == findClosest(sorted, nowTs, 1 * oneDayMs)
        p4d == findClosest(sorted, nowTs, 4 * oneDayMs)
    IN  [id |-> id, displayName |-> META[id].displayName,
         currentPrice |-> Some(nowPoint.price),
         change1hPct |-> Null,
         change4hPct |-> IF p4d # Null THEN computeChangePct(nowPoint.price, priceOf(p4d)) ELSE Null,
         change24hPct |-> IF p1d # Null THEN computeChangePct(nowPoint.price, priceOf(p1d)) ELSE Null]

\* unnamed/part_001 buildCommodityQuoteFromSeries, after line 74
buildLegacyQuoteFromSorted(id, sorted) ==
    LET nowPoint == sorted[Len(sorted)]
        nowTs == nowPoint.timestamp
        p1h == findClosest(sorted, nowTs, 1 * oneHourMs)
        p4h == findClosest(sorted, nowTs, 4 * oneHourMs)
        p24h == findClosest(sorted, nowTs, 24 * oneHourMs)
    IN  [id |-> id, displayName |-> META[id].displayName,
         currentPrice |-> Some(nowPoint.price),
         change1hPct |-> computeChangePct(nowPoint.price, priceOf(p1h)),
         change4hPct |-> computeChangePct(nowPoint.price, priceOf(p4h)),
         change24hPct |-> computeChangePct(nowPoint.price, priceOf(p24h))]

\* api/commodities.js buildQuote
buildQuote(id, series) ==
    IF Len(series) = 0 THEN emptyQuote(id)
    ELSE buildQuoteSorted(id, sortByTimestamp(series))

\* src/services/alpha-vantage-commodities.ts buildCommodityQuoteFromSeries
buildCommodityQuoteFromSeries(id, series) ==
    IF Len(series) = 0 THEN emptyQuote(id)
    ELSE buildCommodityQuoteFromSorted(id, sortByTimestamp(series))

\* unnamed/part_001 buildCommodityQuoteFromSeries
buildLegacyQuoteFromSeries(id, series) ==
    IF Len(series) = 0 THEN emptyQuote(id)
    ELSE buildLegacyQuoteFromSorted(id, sortByTimestamp(series))

\* [...series]: the sort works on a copy, the caller's array is as it was
seriesAfterBuild(series) == series

----------------------------------------------------------------------------
(* parseAlphaVantageResponse (api/commodities.js) *)

isValidNumericValue(val) ==
    IF (val.t = "str" /\ val.s \in {<<".">>, <<>>}) \/ isNullish(val) THEN FALSE
    ELSE LET n == IF typeOf(val) = "number" THEN Some(val.n) ELSE parseFloat(val)
         IN  n # NaN

\* the filter of line 37
flatRecordValid(d) ==
    /\ truthy(d) /\ typeOf(d) = "object"
    /\ typeOf(get(d, S_date)) = "string"
    /\ isValidNumericValue(nullish(get(d, S_value), get(d, S_close)))

\* the map of line 38 and the push of line 40
flatRecordPoint(d) ==
    Point(newDate(get(d, S_date).s),
          parseFloat(nullish(get(d, S_value), get(d, S_close)))[1])

RECURSIVE flatPoints(_, _)
\* the points of the rows data[i..], in order
flatPoints(data, i) ==
    IF i > Len(data) THEN <<>>
    ELSE IF flatRecordValid(data[i])
         THEN <<flatRecordPoint(data[i])>> \o flatPoints(data, i + 1)
         ELSE flatPoints(data, i + 1)

isSeriesKey(k) ==
    (startsWith(k, S_TimeSeries) \/ k = S_data) /\ k # S_MetaData /\ k # S_metadata

\* values['4. close'] ?? values['5. close'] ?? values.close
closeOf(values) ==
    nullish(nullish(get(values, S_4close), get(values, S_5close)), get(values, S_close))

RECURSIVE keyedPoints(_, _)
\* the points of the entries entries[i..] of the keyed-by-date map
keyedPoints(entries, i) ==
    IF i > Len(entries) THEN <<>>
    ELSE LET dateStr == entries[i].k
             values == entries[i].v
             close == closeOf(values)
             rest == keyedPoints(entries, i + 1)
         IN  IF ~truthy(values) \/ typeOf(values) # "object" THEN rest
             ELSE IF ~isValidNumericValue(close) THEN rest
             ELSE LET num == IF typeOf(close) = "string" THEN parseFloat(close)
                             ELSE toNumber(close)
                  IN  <<Point(newDate(dateStr), num[1])>> \o rest

\* lines 32-56: the points pushed, before the sort
collectPoints(raw) ==
    IF ~(truthy(raw) /\ typeOf(raw) = "object") THEN <<>>
    ELSE LET data == get(raw, S_data)
             fromFlat == IF data.t = "arr" THEN flatPoints(data.a, 1) ELSE <<>>
             key == findKey(objectKeys(raw), {k \in elements(objectKeys(raw)) : isSeriesKey(k)}, 1)
             daily == IF key # <<>> THEN get(raw, key[1]) ELSE JNull
             fromKeyed == IF truthy(daily) /\ typeOf(daily) = "object" /\ daily.t # "arr"
                          THEN keyedPoints(objectEntries(daily), 1)
                          ELSE <<>>
         IN  fromFlat \o fromKeyed

\* the arrays the call may return
parseAlphaVantageResponse(raw) == SortOutcomes(collectPoints(raw))

----------------------------------------------------------------------------
(* parseAlphaVantageResponse (src/services/alpha-vantage-commodities.ts) *)

\* lines 56-64: <<>> or the one point of a row
clientRowPoint(row) ==
    IF ~(truthy(row) /\ typeOf(row) = "object") THEN <<>>
    ELSE LET dateStr == IF typeOf(get(row, S_date)) = "string" THEN get(row, S_date) ELSE JNull
             val == nullish(get(row, S_value), get(row, S_close))
             num == IF typeOf(val) = "number" THEN Some(val.n)
                    ELSE IF typeOf(val) = "string" THEN parseFloat(val)
                    ELSE NaN
         IN  IF truthy(dateStr) /\ num # NaN
             THEN <<Point(newDate(dateStr.s), num[1])>>
             ELSE <<>>

RECURSIVE clientFlatPoints(_, _)
clientFlatPoints(data, i) ==
    IF i > Len(data) THEN <<>>
    ELSE clientRowPoint(data[i]) \o clientFlatPoints(data, i + 1)

isSeriesKeyClient(k) == startsWith(k, S_TimeSeries) \/ k = S_data

RECURSIVE clientKeyedPoints(_, _)
clientKeyedPoints(entries, i) ==
    IF i > Len(entries) THEN <<>>
    ELSE LET dateStr == entries[i].k
             values == entries[i].v
             close == closeOf(values)
             rest == clientKeyedPoints(entries, i + 1)
         IN  IF ~truthy(values) \/ typeOf(values) # "object" THEN rest
             ELSE LET num == IF typeOf(close) = "string" THEN parseFloat(close)
                             ELSE toNumber(close)
                  IN  IF num # NaN
                      THEN <<Point(newDate(dateStr), num[1])>> \o rest
                      ELSE rest

\* lines 50-81: the points pushed, before the sort
collectPointsClient(raw) ==
    IF ~(truthy(raw) /\ typeOf(raw) = "object") THEN <<>>
    ELSE LET data == get(raw, S_data)
             fromFlat == IF data.t = "arr" THEN clientFlatPoints(data.a, 1) ELSE <<>>
             key == findKey(objectKeys(raw), {k \in elements(objectKeys(raw)) : isSeriesKeyClient(k)}, 1)
             daily == IF key # <<>> THEN get(raw, key[1]) ELSE JNull
             fromKeyed == IF truthy(daily) /\ typeOf(daily) = "object" /\ daily.t # "arr"
                          THEN clientKeyedPoints(objectEntries(daily), 1)
                          ELSE <<>>
         IN  fromFlat \o fromKeyed

parseAlphaVantageResponseClient(raw) == SortOutcomes(collectPointsClient(raw))

----------------------------------------------------------------------------
(* The fetch paths.  A provider response is                                 *)
(*   [kind |-> "neterr"]              fetch() rejects                       *)
(*   [kind |-> "http", ok, body]      body = <<>>: res.json() rejects,      *)
(*                                    body = <<json>>: it resolves to json  *)
(* A fetch result holds the points returned and the arguments that went to  *)
(* parseAlphaVantageResponse.                                               *)

NetworkError == [kind |-> "neterr"]
HttpResponse(ok, body) == [kind |-> "http", ok |-> ok, body |-> body]

FetchResult(points, parsed) == [points |-> points, parsed |-> parsed]
noPoints == FetchResult(<<>>, <<>>)

\* api/commodities.js line 120
isDataKey(k) ==
    k # S_MetaData /\ k # S_metadata /\ (startsWith(k, S_TimeSeries) \/ k = S_data)

\* src/services/alpha-vantage-commodities.ts line 117
isDataKeyClient(k) ==
    (k # S_MetaData /\ k # S_metadata /\ startsWith(k, S_TimeSeries)) \/ k = S_data

\* a mutant: the rate-limit note is not looked for
hasNoteNever(json) == FALSE

\* json && typeof json === 'object' && 'Note' in json
hasNote(json) == truthy(json) /\ typeOf(json) = "object" /\ hasKey(json, S_Note)

\* lines 119-123 of the proxy: the value handed to the parser
rawOf(json) ==
    LET dataKey == findKey(objectKeys(json), {k \in elements(objectKeys(json)) : isDataKey(k)}, 1)
        raw == IF dataKey # <<>> THEN get(json, dataKey[1]) ELSE json
    IN  nullish(raw, json)

\* lines 116-120 of the client
rawOfClient(json) ==
    LET dataKey == findKey(objectKeys(json), {k \in elements(objectKeys(json)) : isDataKeyClient(k)}, 1)
        raw == IF dataKey # <<>> THEN get(json, dataKey[1]) ELSE json
    IN  nullish(raw, json)

\* fetchOneCommodity(apiKey, id) without debug: the results it may resolve
\* to, given the provider's response.  It never rejects: a rejected fetch
\* or res.json(), and the TypeError of Object.keys(null), end in the catch.
fetchOneCommodity(res) ==
    IF res.kind = "neterr" THEN {noPoints}
    ELSE IF res.body = <<>> THEN {noPoints}
    ELSE LET json == res.body[1]
         IN  IF ~res.ok THEN {noPoints}
             ELSE IF hasNote(json) THEN {noPoints}
             ELSE IF isNullish(json) THEN {noPoints}
             ELSE {FetchResult(points, <<rawOf(json)>>) :
                       points \in parseAlphaVantageResponse(rawOf(json))}

\* the placeholder series of a client without a credential
mockSeries(base, now) ==
    << Point(Some(now - 24 * 3600 * 1000), (base * 95) \div 100),
       Point(Some(now - 4 * 3600 * 1000), (base * 98) \div 100),
       Point(Some(now - 1 * 3600 * 1000), (base * 101) \div 100),
       Point(Some(now), (base * 102) \div 100) >>

\* Math.random() and Date.now(): bases in [100, 120), a clock reading
MockBases == {10000, 11000}
MockNows == {5 * oneDayMs}

\* fetchCommodityTimeSeries(id): useRealApi is whether a credential other
\* than the placeholder is configured
fetchCommodityTimeSeries(useRealApi, res) ==
    IF ~useRealApi
    THEN {FetchResult(mockSeries(base, now), <<>>) : base \in MockBases, now \in MockNows}
    ELSE IF res.kind = "neterr" THEN {noPoints}
    ELSE IF ~res.ok THEN {noPoints}
    ELSE IF res.body = <<>> THEN {noPoints}
    ELSE LET json == res.body[1]
         IN  IF hasNote(json) THEN {noPoints}
             ELSE IF isNullish(json) THEN {noPoints}
             ELSE {FetchResult(points, <<rawOfClient(json)>>) :
                       points \in parseAlphaVantageResponseClient(rawOfClient(json))}

----------------------------------------------------------------------------
(* handler (api/commodities.js) *)

\* process.env.VITE_ALPHAVANTAGEAPI || process.env.ALPHAVANTAGEAPI || '':
\* a variable is <<>> (not set) or <<string>>
apiKeyOf(env) ==
    IF env.vite # <<>> /\ env.vite[1] # "" THEN env.vite[1]
    ELSE IF env.alpha # <<>> /\ env.alpha[1] # "" THEN env.alpha[1]
    ELSE ""

RECURSIVE searchParamsGet(_, _, _)
\* searchParams.get(name): the first value of that name, or null
searchParamsGet(query, name, i) ==
    IF i > Len(query) THEN Null
    ELSE IF query[i].k = name THEN Some(query[i].v)
    ELSE searchParamsGet(query, name, i + 1)

isDebug(req) == searchParamsGet(req.query, "debug", 1) = Some("1")

\* a mutant: the debug branch is taken before the credential is looked at
handlerRouteDebugFirst(req, env) ==
    IF req.method = "OPTIONS" THEN "options"
    ELSE IF req.method # "GET" THEN "notAllowed"
    ELSE IF isDebug(req) THEN "debug"
    ELSE IF apiKeyOf(env) = "" THEN "missingKey"
    ELSE "fanout"

\* the branch the handler takes, lines 133-176
handlerRoute(req, env) ==
    IF req.method = "OPTIONS" THEN "options"
    ELSE IF req.method # "GET" THEN "notAllowed"
    ELSE IF apiKeyOf(env) = "" THEN "missingKey"
    ELSE IF isDebug(req) THEN "debug"
    ELSE "fanout"

\* getCorsHeaders(req) of ./_cors.js: the CORS headers, no other
getCorsHeaders(req) ==
    [ContentType |-> <<>>, CacheControl |-> <<>>, AccessControlAllowOrigin |-> <<"*">>]

\* { ...a, ...b }: a header of b replaces that of a
spreadHeaders(a, b) ==
    [h \in DOMAIN a |-> IF b[h] # <<>> THEN b[h] ELSE a[h]]

jsonHeaders ==
    [ContentType |-> <<"application/json">>, CacheControl |-> <<>>, AccessControlAllowOrigin |-> <<>>]

\* 'public, s-maxage=300, stale-while-revalidate=60'
cacheControl == [public |-> TRUE, sMaxage |-> 300, staleWhileRevalidate |-> 60]

Response(status, headers, body) == [status |-> status, headers |-> headers, body |-> body]

optionsResponse(req) == Response(204, getCorsHeaders(req), [kind |-> "none"])

notAllowedResponse(req) ==
    Response(405, spreadHeaders(jsonHeaders, getCorsHeaders(req)),
             [kind |-> "error", error |-> "Method not allowed"])

\* lines 151-158: body.debug is there for a debug request only
missingKeyResponse(req) ==
    Response(200, spreadHeaders(jsonHeaders, getCorsHeaders(req)),
             [kind |-> "missingKey", error |-> "Missing API key", quotes |-> <<>>,
              debug |-> isDebug(req)])

\* result.raw of the debug fetch (lines 113, 117, 125, 128): the JSON
\* received, undefined (<<>>) when the catch was entered
debugRawOf(res) ==
    IF res.kind = "neterr" THEN <<>>
    ELSE IF res.body = <<>> THEN <<>>
    ELSE IF res.ok /\ ~hasNote(res.body[1]) /\ isNullish(res.body[1]) THEN <<>>
    ELSE res.body

\* lines 163-173
debugResponse(req, points, raw) ==
    Response(200, spreadHeaders(jsonHeaders, getCorsHeaders(req)),
             [kind |-> "debug", debug |-> TRUE,
              alphaVantageRawResponse |-> raw,
              parsedPointsCount |-> Len(points),
              builtQuote |-> buildQuote("WTI", points)])

\* a mutant: the quotes go out without the Cache-Control header
quotesResponseNoCache(req, quotes) ==
    Response(200, spreadHeaders(jsonHeaders, getCorsHeaders(req)),
             [kind |-> "quotes", quotes |-> quotes])

\* lines 181-189
quotesResponse(req, quotes) ==
    Response(200,
             spreadHeaders([jsonHeaders EXCEPT !.CacheControl = <<cacheControl>>],
                           getCorsHeaders(req)),
             [kind |-> "quotes", quotes |-> quotes])

\* Promise.all: the value of the i-th promise is the i-th result
promiseAllStore(results, i, v) == [results EXCEPT ![i] = <<v>>]

\* a mutant: a symbol whose fetch gave no points is left out of the answer
quotesOfDroppingFailed(results) ==
    LET idx == SelectSeq([i \in 1..Len(COMMODITY_IDS) |-> i],
                         LAMBDA i : results[i][1] # <<>>)
    IN  [k \in 1..Len(idx) |-> buildQuote(COMMODITY_IDS[idx[k]], results[idx[k]][1])]

\* line 177: (results[i] && results[i].points) || []
quotesOf(results) ==
    [i \in 1..Len(COMMODITY_IDS) |-> buildQuote(COMMODITY_IDS[i], results[i][1])]

----------------------------------------------------------------------------
(* getAllCommodityQuotesMock (src/services/alpha-vantage-commodities.ts) *)

\* How a promise settles
Resolved(value) == [kind |-> "resolved", value |-> value]
Rejected == [kind |-> "rejected"]

\* a mutant: no try/catch around the call of the endpoint
endpointQuotesNoCatch(res) ==
    IF res.kind = "neterr" THEN [kind |-> "throw"]
    ELSE IF ~res.ok THEN [kind |-> "fallback"]
    ELSE IF res.body = <<>> THEN [kind |-> "throw"]
    ELSE IF res.body[1].t = "arr" /\ Len(res.body[1].a) > 0
         THEN [kind |-> "return", quotes |-> res.body[1]]
         ELSE [kind |-> "fallback"]

\* lines 184-192, the try block: it returns the body of the endpoint, or
\* control goes on to the fallback (a rejected fetch or res.json() is caught)
endpointQuotes(res) ==
    IF res.kind = "neterr" THEN [kind |-> "fallback"]
    ELSE IF ~res.ok THEN [kind |-> "fallback"]
    ELSE IF res.body = <<>> THEN [kind |-> "fallback"]
    ELSE IF res.body[1].t = "arr" /\ Len(res.body[1].a) > 0
         THEN [kind |-> "return", quotes |-> res.body[1]]
         ELSE [kind |-> "fallback"]

\* line 194
mockIds == <<"WTI", "BRENT", "NATGAS", "GOLD", "SILVER", "COPPER", "WHEAT">>

\* line 201: seriesById.map(...)
localQuotes(seriesById) ==
    [i \in 1..Len(mockIds) |-> buildCommodityQuoteFromSeries(mockIds[i], seriesById[i][1])]

----------------------------------------------------------------------------
(* PredictionTabsPanel (unnamed/part_000).  The body of the panel is what   *)
(* its innerHTML was set to: the markets content (the empty-state message   *)
(* or the table, one row per quote) or the placeholder of another tab.      *)

\* PredictionTabId, in the order of the buttons
TabIds == <<"markets", "intel", "correlations", "predictions">>

\* Number.prototype.toFixed(2) of the rational num / den (den > 0): the sign
\* and the hundredths nearest to the magnitude, the larger of two as near
toFixed2(num, den) ==
    LET n == (2 * 100 * Abs(num) + den) \div (2 * den)
    IN  [sign |-> IF num < 0 THEN "-" ELSE "", whole |-> n \div 100, frac |-> n % 100]

\* lines 159-164; value: null or a rational <<num, den>>
getChangeClass(value) ==
    IF value = Null THEN ""
    ELSE IF value[1] > 0 THEN "change-up"
    ELSE IF value[1] < 0 THEN "change-down"
    ELSE ""

\* lines 166-170: the dash, or the sign, the number and " %"
formatChangePercent(value) ==
    IF value = Null THEN [dash |-> TRUE]
    ELSE [dash |-> FALSE, plus |-> value[1] > 0, number |-> toFixed2(value[1], value[2])]

\* lines 113-133: the row of a quote
marketsRow(q) ==
    [displayName |-> q.displayName,
     price |-> IF q.currentPrice # Null
               THEN [dash |-> FALSE, number |-> toFixed2(q.currentPrice[1], 100)]
               ELSE [dash |-> TRUE],
     class1h |-> getChangeClass(q.change1hPct),
     change1h |-> formatChangePercent(q.change1hPct),
     class4h |-> getChangeClass(q.change4hPct),
     change4h |-> formatChangePercent(q.change4hPct),
     class24h |-> getChangeClass(q.change24hPct),
     change24h |-> formatChangePercent(q.change24hPct)]

\* lines 106-157
renderMarketsContent(quotes) ==
    IF Len(quotes) = 0 THEN [kind |-> "empty"]
    ELSE [kind |-> "table", rows |-> [i \in 1..Len(quotes) |-> marketsRow(quotes[i])]]

\* lines 48-59, 76-80: the buttons that have the class active
activeButtons(tab) == [i \in 1..Len(TabIds) |-> TabIds[i] = tab]

\* lines 85-96: the body updateActiveTab leaves
updateActiveTabBody(tab, quotes) ==
    IF tab = "markets" THEN renderMarketsContent(quotes)
    ELSE [kind |-> "placeholder", tab |-> tab]

\* a mutant: the markets content is rendered whatever tab is active
setCommodityQuotesBodyAlways(tab, body, quotes) == renderMarketsContent(quotes)

\* lines 26-28, 99-104: the body setCommodityQuotes leaves
setCommodityQuotesBody(tab, body, quotes) ==
    IF tab = "markets" THEN renderMarketsContent(quotes) ELSE body

\* lines 66-67: the click is not on a tab button, or on that of the active tab
clickIgnored(tabId, tab) == tabId = Null \/ tabId = Some(tab)

----------------------------------------------------------------------------
(* The parts that a specification leaves out stay as they are *)

QuoteOff == qPc = "off" /\ qImpl = "none" /\ qId = "none" /\ qSeries = <<>> /\ qQuote = <<>>
ParseOff == pPc = "off" /\ pImpl = "none" /\ pRaw = JNull /\ pPoints = <<>>
FetchOff == fPc = "off" /\ fImpl = "none" /\ fRealApi = FALSE /\ fRes = NetworkError /\ fResult = <<>>
HandlerOff ==
    /\ hPc = "off" /\ hReq = [method |-> "none", query |-> <<>>]
    /\ hEnv = [vite |-> <<>>, alpha |-> <<>>]
    /\ hIssued = <<>> /\ hPending = {} /\ hProv = <<>> /\ hResults = <<>> /\ hResponse = <<>>

MockOff ==
    /\ mPc = "off" /\ mEndpoint = NetworkError /\ mRealApi = FALSE
    /\ mPending = {} /\ mSeries = <<>> /\ mResult = <<>>
PanelOff ==
    /\ tPc = "off" /\ activeTab = "none" /\ latestQuotes = <<>>
    /\ tabBody = [kind |-> "none"] /\ tabButtons = <<>>

SeqsUpTo(S, n) == UNION {[1..k -> S] : k \in 0..n}

----------------------------------------------------------------------------
(* The quote builders as a state machine: a caller holds a series (valid    *)
(* timestamps, any order) and calls one of the three builders once.         *)

QuoteIds == {"WTI", "GOLD"}
QuoteTimestamps == {0, 1 * oneHourMs, 24 * oneHourMs, 48 * oneHourMs, 96 * oneHourMs}
QuotePrices == {0, 100, 110}
QuotePoints == {Point(Some(ts), pr) : ts \in QuoteTimestamps, pr \in QuotePrices}

InitQuote ==
    /\ qPc = "ready"
    /\ qImpl \in {"proxy", "client", "legacy"}
    /\ qId \in QuoteIds
    /\ qSeries \in SeqsUpTo(QuotePoints, MaxSeriesLen)
    /\ qQuote = <<>>
    /\ ParseOff /\ FetchOff /\ HandlerOff /\ MockOff /\ PanelOff

BuildQuoteProxy ==
    /\ qPc = "ready" /\ qImpl = "proxy"
    /\ qQuote' = Some(buildQuote(qId, qSeries))
    /\ qSeries' = seriesAfterBuild(qSeries)
    /\ qPc' = "done"
    /\ UNCHANGED <<qImpl, qId, pvars, fvars, hvars, mvars, tvars>>

BuildQuoteClient ==
    /\ qPc = "ready" /\ qImpl = "client"
    /\ qQuote' = Some(buildCommodityQuoteFromSeries(qId, qSeries))
    /\ qSeries' = seriesAfterBuild(qSeries)
    /\ qPc' = "done"
    /\ UNCHANGED <<qImpl, qId, pvars, fvars, hvars, mvars, tvars>>

BuildQuoteLegacy ==
    /\ qPc = "ready" /\ qImpl = "legacy"
    /\ qQuote' = Some(buildLegacyQuoteFromSeries(qId, qSeries))
    /\ qSeries' = seriesAfterBuild(qSeries)
    /\ qPc' = "done"
    /\ UNCHANGED <<qImpl, qId, pvars, fvars, hvars, mvars, tvars>>

NextQuote == BuildQuoteProxy \/ BuildQuoteClient \/ BuildQuoteLegacy

SpecQuote == InitQuote /\ [][NextQuote]_vars

----------------------------------------------------------------------------
(* Provider payloads *)

IsoDate(d) == <<"1", "9", "7", "0", "-", "0", "1", "-", "0", indexKey(d)[1]>>

\* a record with the properties that are given (<<>>: not there)
Row(date, value, close) ==
    JObj( (IF date = <<>> THEN <<>> ELSE <<Prop(S_date, date[1])>>)
       \o (IF value = <<>> THEN <<>> ELSE <<Prop(S_value, value[1])>>)
       \o (IF close = <<>> THEN <<>> ELSE <<Prop(S_close, close[1])>>) )

RowDates == {<<>>, <<JStr(<<>>)>>, <<JStr(IsoDate(2))>>, <<JStr(IsoDate(3))>>}
RowValues == { JNull, JNum(10000), JStr(<<"1", "1", "0">>), JStr(<<".">>), JStr(<<>>),
               JStr(<<"7", "x">>), JStr(<<"x">>) }

\* the rows of a flat list: every date with every value, rows whose price
\* is under close, and rows that are no records
FlatRows ==
    {Row(d, <<v>>, <<>>) : d \in RowDates, v \in RowValues}
    \cup {Row(<<JStr(IsoDate(2))>>, v, <<JStr(<<"1", "0", "5", ".", "5">>)>>) : v \in {<<>>, <<JNull>>}}
    \cup {JNull, JNum(7)}

\* the nested records of a keyed-by-date map
KeyedRecords ==
    { JObj(<<Prop(S_4close, JStr(<<"1", "0", "5">>))>>),
      JObj(<<Prop(S_5close, JStr(<<"1", "0", "6">>))>>),
      JObj(<<Prop(S_close, JNum(10700))>>),
      JObj(<<Prop(S_4close, JNull), Prop(S_5close, JStr(<<"1", "0", "6">>))>>),
      JObj(<<Prop(S_4close, JStr(<<".">>))>>),
      JObj(<<Prop(S_4close, JNull)>>),
      JObj(<<Prop(S_close, JNull)>>),
      JObj(<<>>),
      JNull }
KeyedDates == {<<>>, IsoDate(2), IsoDate(4)}

distinctKeys(entries) ==
    \A i, j \in 1..Len(entries) : i # j => entries[i].k # entries[j].k

KeyedMaps(dates, records, n) ==
    {JObj(e) : e \in {x \in SeqsUpTo({Prop(d, r) : d \in dates, r \in records}, n) : distinctKeys(x)}}

FlatLists(rows, n) == {JArr(a) : a \in SeqsUpTo(rows, n)}

\* rows and entries of the payloads that hold both shapes: valid dates, one
\* of them common to the two shapes
CoreRows ==
    { Row(<<JStr(IsoDate(2))>>, <<JStr(<<"1", "1", "0">>)>>, <<>>),
      Row(<<JStr(IsoDate(3))>>, <<JNum(10000)>>, <<>>),
      Row(<<JStr(IsoDate(2))>>, <<JStr(<<".">>)>>, <<>>) }
CoreRecords ==
    { JObj(<<Prop(S_4close, JStr(<<"1", "0", "5">>))>>),
      JObj(<<Prop(S_4close, JStr(<<".">>))>>) }
CoreDates == {IsoDate(2), IsoDate(4)}

\* what parseAlphaVantageResponse is called with: lists and maps of up to n
\* elements
ParseInputs(n) ==
    {JObj(<<Prop(S_data, l)>>) : l \in FlatLists(FlatRows, n)}
    \cup {JObj(<<Prop(k, m)>>) : k \in {S_TimeSeriesDaily, S_data},
                                 m \in KeyedMaps(KeyedDates, KeyedRecords, n)}
    \cup {JObj(<<Prop(S_MetaData, JObj(<<>>)), Prop(S_TimeSeriesDaily, m)>>) :
              m \in KeyedMaps(CoreDates, CoreRecords, n)}
    \cup {JObj(<<Prop(S_data, l), Prop(S_TimeSeriesDaily, m)>>) :
              l \in FlatLists(CoreRows, n), m \in KeyedMaps(CoreDates, CoreRecords, n)}
    \cup {JObj(<<Prop(S_TimeSeriesDaily, m), Prop(S_data, l)>>) :
              l \in FlatLists(CoreRows, n), m \in KeyedMaps(CoreDates, CoreRecords, n)}
    \cup FlatLists(CoreRows, n)
    \cup {JNull, JNum(0), JNum(7), JStr(<<"x">>), JObj(<<Prop(S_name, JStr(<<"x">>))>>)}

----------------------------------------------------------------------------
(* A call of parseAlphaVantageResponse *)

InitParse ==
    /\ pPc = "ready"
    /\ pImpl \in {"proxy", "client"}
    /\ pRaw \in ParseInputs(MaxRecords)
    /\ pPoints = <<>>
    /\ QuoteOff /\ FetchOff /\ HandlerOff /\ MockOff /\ PanelOff

ParseProxy ==
    /\ pPc = "ready" /\ pImpl = "proxy"
    /\ pPoints' \in parseAlphaVantageResponse(pRaw)
    /\ pPc' = "done"
    /\ UNCHANGED <<pImpl, pRaw, qvars, fvars, hvars, mvars, tvars>>

ParseClient ==
    /\ pPc = "ready" /\ pImpl = "client"
    /\ pPoints' \in parseAlphaVantageResponseClient(pRaw)
    /\ pPc' = "done"
    /\ UNCHANGED <<pImpl, pRaw, qvars, fvars, hvars, mvars, tvars>>

NextParse == ParseProxy \/ ParseClient

SpecParse == InitParse /\ [][NextParse]_vars

----------------------------------------------------------------------------
(* One per-symbol fetch: the provider answers, the fetch path settles *)

noteProp == Prop(S_Note, JStr(<<"l", "i", "m", "i", "t">>))

\* the bodies without a rate-limit note
PlainBodies ==
    {JObj(<<Prop(S_data, l)>>) : l \in FlatLists(CoreRows, MaxRecords)}
    \cup {JObj(<<Prop(S_name, JStr(<<"x">>)), Prop(S_data, l)>>) : l \in FlatLists(CoreRows, MaxRecords)}
    \cup {JObj(<<Prop(S_data, JObj(<<Prop(S_data, l)>>))>>) : l \in FlatLists(CoreRows, MaxRecords)}
    \cup {JObj(<<Prop(S_MetaData, JObj(<<>>)), Prop(S_TimeSeriesDaily, m)>>) :
              m \in KeyedMaps(CoreDates, CoreRecords, MaxRecords)}
    \cup {JObj(<<>>)}

\* the same with the note as first or as last property
NoteBodies ==
    {JObj(<<noteProp>> \o b.o) : b \in PlainBodies}
    \cup {JObj(b.o \o <<noteProp>>) : b \in PlainBodies}
    \cup {JObj(<<Prop(S_Note, JNull)>>)}

FetchBodies ==
    PlainBodies \cup NoteBodies \cup FlatLists(CoreRows, 1) \cup {JNull, JNum(7), JStr(<<"x">>)}

ProviderResponses ==
    {NetworkError}
    \cup {HttpResponse(ok, <<>>) : ok \in BOOLEAN}
    \cup {HttpResponse(ok, <<b>>) : ok \in BOOLEAN, b \in FetchBodies}

InitFetch ==
    /\ fPc = "pending"
    /\ \/ fImpl = "proxy" /\ fRealApi = TRUE /\ fRes \in ProviderResponses
       \/ fImpl = "client" /\ fRealApi = TRUE /\ fRes \in ProviderResponses
       \/ fImpl = "client" /\ fRealApi = FALSE /\ fRes = NetworkError
    /\ fResult = <<>>
    /\ QuoteOff /\ ParseOff /\ HandlerOff /\ MockOff /\ PanelOff

FetchSettleProxy ==
    /\ fPc = "pending" /\ fImpl = "proxy"
    /\ \E r \in fetchOneCommodity(fRes) : fResult' = <<r>>
    /\ fPc' = "settled"
    /\ UNCHANGED <<fImpl, fRealApi, fRes, qvars, pvars, hvars, mvars, tvars>>

FetchSettleClient ==
    /\ fPc = "pending" /\ fImpl = "client"
    /\ \E r \in fetchCommodityTimeSeries(fRealApi, fRes) : fResult' = <<r>>
    /\ fPc' = "settled"
    /\ UNCHANGED <<fImpl, fRealApi, fRes, qvars, pvars, hvars, mvars, tvars>>

NextFetch == FetchSettleProxy \/ FetchSettleClient

SpecFetch == InitFetch /\ [][NextFetch]_vars

----------------------------------------------------------------------------
(* A request to the handler.  The provider answers each fetch in its own    *)
(* time; the handler goes on when the awaited promise settles.              *)

Param(k, v) == [k |-> k, v |-> v]

Queries ==
    { <<>>,
      <<Param("debug", "1")>>,
      <<Param("debug", "0"), Param("foo", "bar")>>,
      <<Param("foo", "bar"), Param("debug", "1")>> }

Requests == {[method |-> m, query |-> q] : m \in {"GET", "OPTIONS", "POST"}, q \in Queries}

Envs ==
    { [vite |-> <<>>, alpha |-> <<>>],
      [vite |-> <<"">>, alpha |-> <<>>],
      [vite |-> <<"K1">>, alpha |-> <<>>],
      [vite |-> <<>>, alpha |-> <<"K2">>] }

\* a successful payload that the fetch path turns into two points
goodBody ==
    JObj(<<Prop(S_data, JObj(<<Prop(S_data, JArr(<<
        Row(<<JStr(IsoDate(3))>>, <<JNum(11000)>>, <<>>),
        Row(<<JStr(IsoDate(2))>>, <<JStr(<<"1", "0", "0">>)>>, <<>>) >>))>>))>>)

\* what the provider may answer to a fetch of the handler: the fetch fails
\* (no connection, an error status, a body that is not JSON) or succeeds
ProviderAnswers == {"neterr", "status500", "notJson", "ok"}

providerResponse(answer) ==
    CASE answer = "neterr" -> NetworkError
      [] answer = "status500" -> HttpResponse(FALSE, <<goodBody>>)
      [] answer = "notJson" -> HttpResponse(TRUE, <<>>)
      [] answer = "ok" -> HttpResponse(TRUE, <<goodBody>>)

\* what fetchOneCommodity may resolve to, per answer
handlerFetchOutcomes == [a \in ProviderAnswers |-> fetchOneCommodity(providerResponse(a))]

Positions == 1..Len(COMMODITY_IDS)

\* the point sequences these outcomes hold, and line 177 for every array of
\* results that Promise.all may resolve to
handlerPoints == UNION {{r.points : r \in handlerFetchOutcomes[a]} : a \in ProviderAnswers}
handlerQuotePairs ==
    {<<results, quotesOf(results)>> : results \in [Positions -> {<<pts>> : pts \in handlerPoints}]}
handlerQuotes(results) == (CHOOSE pair \in handlerQuotePairs : pair[1] = results)[2]

InitHandler ==
    /\ hPc = "received"
    /\ hReq \in Requests
    /\ hEnv \in Envs
    /\ hIssued = <<>>
    /\ hPending = {}
    /\ hProv = [i \in Positions |-> <<>>]
    /\ hResults = [i \in Positions |-> <<>>]
    /\ hResponse = <<>>
    /\ QuoteOff /\ ParseOff /\ FetchOff /\ MockOff /\ PanelOff

\* the handler up to its first await, or to its return when it awaits nothing
HandlerReceive ==
    /\ hPc = "received"
    /\ LET route == handlerRoute(hReq, hEnv)
       IN  \/ /\ route = "options"
              /\ hResponse' = <<optionsResponse(hReq)>>
              /\ hPc' = "responded"
              /\ UNCHANGED <<hIssued, hPending>>
           \/ /\ route = "notAllowed"
              /\ hResponse' = <<notAllowedResponse(hReq)>>
              /\ hPc' = "responded"
              /\ UNCHANGED <<hIssued, hPending>>
           \/ /\ route = "missingKey"
              /\ hResponse' = <<missingKeyResponse(hReq)>>
              /\ hPc' = "responded"
              /\ UNCHANGED <<hIssued, hPending>>
           \/ /\ route = "debug"
              /\ hIssued' = <<"WTI">>
              /\ hPending' = {1}
              /\ hPc' = "debugFetching"
              /\ UNCHANGED hResponse
           \/ /\ route = "fanout"
              /\ hIssued' = COMMODITY_IDS
              /\ hPending' = Positions
              /\ hPc' = "fetching"
              /\ UNCHANGED hResponse
    /\ UNCHANGED <<hReq, hEnv, hProv, hResults, qvars, pvars, fvars, mvars, tvars>>

\* the provider answers the fetch at position i and fetchOneCommodity resolves
FetchSettlesWith(i, answers) ==
    /\ hPc \in {"fetching", "debugFetching"}
    /\ i \in hPending
    /\ \E answer \in answers :
          /\ hProv' = [hProv EXCEPT ![i] = <<answer>>]
          /\ \E r \in handlerFetchOutcomes[answer] :
                hResults' = promiseAllStore(hResults, i, r.points)
    /\ hPending' = hPending \ {i}
    /\ UNCHANGED <<hPc, hReq, hEnv, hIssued, hResponse, qvars, pvars, fvars, mvars, tvars>>

\* a mutant: the response is built as soon as the fetches are issued, from
\* the results there are
HandlerRespondEarly ==
    /\ hPc = "fetching"
    /\ hResponse' = <<quotesResponse(hReq, handlerQuotes(
           [i \in Positions |-> IF hResults[i] = <<>> THEN <<<<>>>> ELSE hResults[i]]))>>
    /\ hPc' = "responded"
    /\ UNCHANGED <<hReq, hEnv, hIssued, hPending, hProv, hResults, qvars, pvars, fvars, mvars, tvars>>

\* lines 176-189: Promise.all has resolved
HandlerRespond ==
    /\ hPc = "fetching"
    /\ hPending = {}
    /\ hResponse' = <<quotesResponse(hReq, handlerQuotes(hResults))>>
    /\ hPc' = "responded"
    /\ UNCHANGED <<hReq, hEnv, hIssued, hPending, hProv, hResults, qvars, pvars, fvars, mvars, tvars>>

\* lines 162-173: the one fetch of the debug mode has resolved
HandlerRespondDebug ==
    /\ hPc = "debugFetching"
    /\ hPending = {}
    /\ hResponse' = <<debugResponse(hReq, hResults[1][1], debugRawOf(providerResponse(hProv[1][1])))>>
    /\ hPc' = "responded"
    /\ UNCHANGED <<hReq, hEnv, hIssued, hPending, hProv, hResults, qvars, pvars, fvars, mvars, tvars>>

FetchSettles(i) == FetchSettlesWith(i, ProviderAnswers)

NextHandler ==
    \/ HandlerReceive
    \/ \E i \in Positions : FetchSettles(i)
    \/ HandlerRespond
    \/ HandlerRespondDebug

SpecHandler == InitHandler /\ [][NextHandler]_vars

\* The same with the scheduling of the run: the event loop runs the handler
\* when the request is there and when the promise it awaits has settled;
\* every fetch of the provider settles at last, failing or not.
LiveAnswers == {"neterr", "ok"}

FetchSettlesLive(i) == FetchSettlesWith(i, LiveAnswers)

NextHandlerLive ==
    \/ HandlerReceive
    \/ \E i \in Positions : FetchSettlesLive(i)
    \/ HandlerRespond
    \/ HandlerRespondDebug

SpecHandlerLive ==
    /\ InitHandler /\ [][NextHandlerLive]_vars
    /\ WF_vars(HandlerReceive)
    /\ \A i \in Positions : WF_vars(FetchSettlesLive(i))
    /\ WF_vars(HandlerRespond)
    /\ WF_vars(HandlerRespondDebug)

----------------------------------------------------------------------------
(* A call of getAllCommodityQuotesMock: the inbound endpoint answers; if    *)
(* its answer is not used, the seven series are fetched and the quotes are  *)
(* built locally.                                                           *)

\* a quote as the endpoint sends it (what is in it is not looked at)
quoteJson == JObj(<<Prop(S_name, JStr(<<"x">>))>>)

\* the bodies of the endpoint: arrays, the object of a missing credential,
\* other JSON values
EndpointBodies ==
    { JArr(<<>>), JArr(<<quoteJson>>), JArr(<<quoteJson, quoteJson>>), JArr(<<JNull>>),
      JObj(<<Prop(S_name, JStr(<<"x">>)), Prop(S_data, JArr(<<>>))>>),
      JNull, JNum(7) }

EndpointResponses ==
    {NetworkError}
    \cup {HttpResponse(ok, <<>>) : ok \in BOOLEAN}
    \cup {HttpResponse(ok, <<b>>) : ok \in BOOLEAN, b \in EndpointBodies}

\* what the provider answers to a fetch of the fallback
FallbackAnswers == {"neterr", "ok"}

MockPositions == 1..Len(mockIds)

InitMock ==
    /\ mPc = "calling"
    /\ mEndpoint \in EndpointResponses
    /\ mRealApi \in BOOLEAN
    /\ mPending = {}
    /\ mSeries = [i \in MockPositions |-> <<>>]
    /\ mResult = <<>>
    /\ QuoteOff /\ ParseOff /\ FetchOff /\ HandlerOff /\ PanelOff

\* lines 184-200: the endpoint has answered; the body is returned, or the
\* seven calls of fetchCommodityTimeSeries are made
MockEndpointSettles ==
    /\ mPc = "calling"
    /\ LET o == endpointQuotes(mEndpoint)
       IN  \/ /\ o.kind # "fallback"
              /\ mResult' = << IF o.kind = "return"
                               THEN Resolved([from |-> "endpoint", quotes |-> o.quotes])
                               ELSE Rejected >>
              /\ mPc' = "settled"
              /\ UNCHANGED mPending
           \/ /\ o.kind = "fallback"
              /\ mPending' = MockPositions
              /\ mPc' = "fallback"
              /\ UNCHANGED mResult
    /\ UNCHANGED <<mEndpoint, mRealApi, mSeries, qvars, pvars, fvars, hvars, tvars>>

\* line 197: fetchCommodityTimeSeries(ids[i]) resolves.  Without a
\* credential nothing is awaited inside it and the calls resolve in order.
MockFetchSettles(i) ==
    /\ mPc = "fallback"
    /\ i \in mPending
    /\ mRealApi \/ \A j \in mPending : i <= j
    /\ \E answer \in FallbackAnswers :
          \E r \in fetchCommodityTimeSeries(mRealApi, providerResponse(answer)) :
              mSeries' = promiseAllStore(mSeries, i, r.points)
    /\ mPending' = mPending \ {i}
    /\ UNCHANGED <<mPc, mEndpoint, mRealApi, mResult, qvars, pvars, fvars, hvars, tvars>>

\* line 201: Promise.all has resolved
MockResolves ==
    /\ mPc = "fallback"
    /\ mPending = {}
    /\ mResult' = <<Resolved([from |-> "local", quotes |-> localQuotes(mSeries)])>>
    /\ mPc' = "settled"
    /\ UNCHANGED <<mEndpoint, mRealApi, mPending, mSeries, qvars, pvars, fvars, hvars, tvars>>

NextMock ==
    \/ MockEndpointSettles
    \/ \E i \in MockPositions : MockFetchSettles(i)
    \/ MockResolves

SpecMock == InitMock /\ [][NextMock]_vars

----------------------------------------------------------------------------
(* A PredictionTabsPanel on the page: the user clicks, the dashboard sets   *)
(* quotes.  Panel.setContent and Panel.getElement are taken to set and to   *)
(* give the panel's element at once.                                        *)

\* the quotes the dashboard may hand over: without data, with a rise, with
\* a fall, with a change that is not a whole number of hundredths
PanelQuotes ==
    { emptyQuote("WTI"),
      buildQuote("GOLD", <<Point(Some(0), 10000), Point(Some(oneDayMs), 11000)>>),
      buildQuote("SILVER", <<Point(Some(0), 11000), Point(Some(oneDayMs), 10000)>>),
      buildLegacyQuoteFromSeries("COPPER", <<Point(Some(0), 30000), Point(Some(oneHourMs), 30100)>>),
      buildQuote("WHEAT", <<Point(Some(0), 0), Point(Some(oneDayMs), 10050)>>) }

\* e.target.getAttribute('data-tab-id'): null off the buttons
ClickTargets == {Null} \cup {Some(TabIds[i]) : i \in 1..Len(TabIds)}

\* lines 8-22: the panel as its constructor leaves it
InitPanel ==
    /\ tPc = "shown"
    /\ activeTab = "markets"
    /\ latestQuotes = <<>>
    /\ tabBody = renderMarketsContent(<<>>)
    /\ tabButtons = activeButtons("markets")
    /\ QuoteOff /\ ParseOff /\ FetchOff /\ HandlerOff /\ MockOff

\* lines 24-29
setCommodityQuotes(quotes) ==
    /\ tPc = "shown"
    /\ latestQuotes' = quotes
    /\ tabBody' = setCommodityQuotesBody(activeTab, tabBody, quotes)
    /\ UNCHANGED <<tPc, activeTab, tabButtons, qvars, pvars, fvars, hvars, mvars>>

\* lines 63-71, 74-97: the click listener, then updateActiveTab
TabClick(tabId) ==
    /\ tPc = "shown"
    /\ IF clickIgnored(tabId, activeTab)
       THEN UNCHANGED <<activeTab, tabButtons, tabBody>>
       ELSE /\ activeTab' = tabId[1]
            /\ tabButtons' = activeButtons(tabId[1])
            /\ tabBody' = updateActiveTabBody(tabId[1], latestQuotes)
    /\ UNCHANGED <<tPc, latestQuotes, qvars, pvars, fvars, hvars, mvars>>

NextPanel ==
    \/ \E quotes \in SeqsUpTo(PanelQuotes, MaxQuotes) : setCommodityQuotes(quotes)
    \/ \E tabId \in ClickTargets : TabClick(tabId)

SpecPanel == InitPanel /\ [][NextPanel]_vars

----------------------------------------------------------------------------
(* Properties of the quote builders *)

qDone == qPc = "done"
theQuote == qQuote[1]

\* what the claims call the percentage change of cur against r
PctChange(cur, r) == IF r = 0 THEN Null ELSE Ratio((cur - r) * 100, r)

TsDistance(p, target) == Abs(p.timestamp[1] - target)

\* the positions of series at minimum absolute distance from target
NearestPositions(series, target) ==
    {i \in 1..Len(series) :
        \A j \in 1..Len(series) :
            TsDistance(series[i], target) <= TsDistance(series[j], target)}

\* the latest timestamp of a non-empty series
AnchorTs(series) ==
    LET i == CHOOSE k \in 1..Len(series) :
                 \A j \in 1..Len(series) : series[j].timestamp[1] <= series[k].timestamp[1]
    IN  series[i].timestamp[1]

\* change is the percentage change of the quote's currentPrice against a
\* point of the series nearest to (anchor - horizonMs)
ChangeIsAgainstNearest(change, quote, series, horizonMs) ==
    \E i \in NearestPositions(series, AnchorTs(series) - horizonMs) :
        change = PctChange(quote.currentPrice[1], series[i].price)

\* C1 (as amended): a series of one point gives currentPrice = that point's
\* price; the point is its own reference, so change4hPct and change24hPct
\* (and change1hPct in the earlier client revision) are 0, or absent when the
\* price is 0; the proxy and the client service leave change1hPct absent.
C1_SinglePointQuote ==
    (qDone /\ Len(qSeries) = 1) =>
        LET p == qSeries[1]
            self == IF p.price = 0 THEN Null ELSE <<0, 1>>
        IN  /\ theQuote.currentPrice = Some(p.price)
            /\ theQuote.change4hPct = self
            /\ theQuote.change24hPct = self
            /\ theQuote.change1hPct = (IF qImpl = "legacy" THEN self ELSE Null)

C1_Witness ==
    /\ qDone /\ qImpl = "proxy" /\ Len(qSeries) = 1 /\ qSeries[1].price = 110
    /\ theQuote.currentPrice = Some(110)
    /\ theQuote.change24hPct = <<0, 1>>

\* C1 (as stated): a series of one point gives currentPrice = that point's
\* price and all three change fields absent.
C1_Original ==
    (qDone /\ Len(qSeries) = 1) =>
        /\ theQuote.currentPrice = Some(qSeries[1].price)
        /\ theQuote.change1hPct = Null
        /\ theQuote.change4hPct = Null
        /\ theQuote.change24hPct = Null

\* C4 (as amended): for a non-empty series the proxy and the client service
\* take change24hPct against the point nearest to (anchor - 24 hours) and
\* change4hPct against the point nearest to (anchor - 4 days), and leave
\* change1hPct absent; the earlier client revision uses 1, 4 and 24 hours.
C4_HorizonReferences ==
    (qDone /\ Len(qSeries) > 0) =>
        IF qImpl = "legacy"
        THEN /\ ChangeIsAgainstNearest(theQuote.change1hPct, theQuote, qSeries, 1 * 3600000)
             /\ ChangeIsAgainstNearest(theQuote.change4hPct, theQuote, qSeries, 4 * 3600000)
             /\ ChangeIsAgainstNearest(theQuote.change24hPct, theQuote, qSeries, 24 * 3600000)
        ELSE /\ theQuote.change1hPct = Null
             /\ ChangeIsAgainstNearest(theQuote.change4hPct, theQuote, qSeries, 96 * 3600000)
             /\ ChangeIsAgainstNearest(theQuote.change24hPct, theQuote, qSeries, 24 * 3600000)

\* the anchor (96h, 110) given first, its 4-day reference (0h, 100) second
C4_Witness ==
    /\ qDone /\ qImpl = "client" /\ Len(qSeries) = 2
    /\ qSeries[1] = Point(Some(96 * 3600000), 110)
    /\ qSeries[2] = Point(Some(0), 100)
    /\ theQuote.change4hPct = <<10, 1>>
    /\ theQuote.change1hPct = Null

\* C4 (as stated): for a non-empty series the three change fields are the
\* percentage changes against the points nearest to anchor - 1 hour,
\* anchor - 4 hours and anchor - 24 hours.
C4_Original ==
    (qDone /\ qImpl # "legacy" /\ Len(qSeries) > 0) =>
        /\ ChangeIsAgainstNearest(theQuote.change1hPct, theQuote, qSeries, 1 * 3600000)
        /\ ChangeIsAgainstNearest(theQuote.change4hPct, theQuote, qSeries, 4 * 3600000)
        /\ ChangeIsAgainstNearest(theQuote.change24hPct, theQuote, qSeries, 24 * 3600000)

\* C5: with at least two points change24hPct is (currentPrice - r) / r * 100
\* for r the price of a point nearest to 24 hours before the anchor, absent
\* when r = 0; 100 then 110 a day later gives exactly 10.
C5_Change24h ==
    /\ (qDone /\ Len(qSeries) >= 2) =>
           ChangeIsAgainstNearest(theQuote.change24hPct, theQuote, qSeries, 24 * 3600000)
    /\ (qDone /\ qSeries = <<Point(Some(0), 100), Point(Some(24 * 3600000), 110)>>) =>
           theQuote.change24hPct = <<10, 1>>
    /\ (qDone /\ qSeries = <<Point(Some(0), 0), Point(Some(24 * 3600000), 110)>>) =>
           theQuote.change24hPct = Null

C5_Witness ==
    /\ qDone /\ qImpl = "proxy"
    /\ qSeries = <<Point(Some(0), 100), Point(Some(24 * 3600000), 110)>>
    /\ theQuote.change24hPct = <<10, 1>>

----------------------------------------------------------------------------
(* Further properties of the quote builders *)

\* C12: currentPrice is the price of a point of the series with the latest
\* timestamp, and is absent exactly for the empty series, for which the
\* three changes are absent too and displayName is that of the symbol.
C12_CurrentPriceIsLatest ==
    qDone =>
        /\ (theQuote.currentPrice = Null) <=> (qSeries = <<>>)
        /\ qSeries # <<>> =>
              \E i \in 1..Len(qSeries) :
                  /\ qSeries[i].timestamp[1] = AnchorTs(qSeries)
                  /\ theQuote.currentPrice = Some(qSeries[i].price)
        /\ qSeries = <<>> =>
              /\ theQuote.change1hPct = Null
              /\ theQuote.change4hPct = Null
              /\ theQuote.change24hPct = Null
              /\ theQuote.displayName = META[qId].displayName
              /\ theQuote.displayName # ""

\* the latest point is given first, two earlier points after it
C12_Witness ==
    /\ qDone /\ qImpl = "client"
    /\ qSeries = <<Point(Some(96 * 3600000), 110), Point(Some(0), 0),
                   Point(Some(48 * 3600000), 100)>>
    /\ theQuote.currentPrice = Some(110)

\* the position of the reference point the claim names: among the points
\* nearest to target, the earliest, and of those given the same timestamp
\* the one given first (the sort is stable)
FirstNearest(series, target) ==
    CHOOSE i \in NearestPositions(series, target) :
        \A j \in NearestPositions(series, target) :
            \/ series[i].timestamp[1] < series[j].timestamp[1]
            \/ series[i].timestamp[1] = series[j].timestamp[1] /\ i <= j

ChangeIsAgainstFirstNearest(change, quote, series, horizonMs) ==
    change = PctChange(quote.currentPrice[1],
                       series[FirstNearest(series, AnchorTs(series) - horizonMs)].price)

\* C13: when several points are at the same least distance from the target
\* instant, the reference point is the first of them in ascending order.
C13_TieTakesFirst ==
    (qDone /\ Len(qSeries) > 0) =>
        IF qImpl = "legacy"
        THEN /\ ChangeIsAgainstFirstNearest(theQuote.change1hPct, theQuote, qSeries, 1 * 3600000)
             /\ ChangeIsAgainstFirstNearest(theQuote.change4hPct, theQuote, qSeries, 4 * 3600000)
             /\ ChangeIsAgainstFirstNearest(theQuote.change24hPct, theQuote, qSeries, 24 * 3600000)
        ELSE /\ ChangeIsAgainstFirstNearest(theQuote.change4hPct, theQuote, qSeries, 96 * 3600000)
             /\ ChangeIsAgainstFirstNearest(theQuote.change24hPct, theQuote, qSeries, 24 * 3600000)

\* the target of the 24-hour change is 72h: the points at 48h and at 96h
\* are both 24 hours from it, and the change is against the one at 48h
C13_Witness ==
    /\ qDone /\ qImpl = "proxy"
    /\ qSeries = <<Point(Some(96 * 3600000), 110), Point(Some(48 * 3600000), 100)>>
    /\ NearestPositions(qSeries, 72 * 3600000) = {1, 2}
    /\ theQuote.change24hPct = <<10, 1>>

\* the builder of qImpl, as a function of the series
builderOf(impl, id, series) ==
    CASE impl = "proxy" -> buildQuote(id, series)
      [] impl = "client" -> buildCommodityQuoteFromSeries(id, series)
      [] impl = "legacy" -> buildLegacyQuoteFromSeries(id, series)

\* C14 (as stated): every permutation of the series gives the same quote,
\* and the call leaves the caller's array as it was.
C14_OrderIndependent ==
    /\ [](qDone => \A perm \in ArrayPermutations(qSeries) :
                       builderOf(qImpl, qId, perm) = theQuote)
    /\ [][qSeries' = qSeries]_vars

----------------------------------------------------------------------------
(* Properties of the normalizer and of the fetch paths *)

pDone == pPc = "done"
fSettled == fPc = "settled"

IsAscending(points) ==
    \A i, j \in 1..Len(points) :
        i < j => points[i].timestamp[1] <= points[j].timestamp[1]

propOf(obj, key) ==
    IF \E i \in 1..Len(obj.o) : obj.o[i].k = key
    THEN obj.o[CHOOSE i \in 1..Len(obj.o) : obj.o[i].k = key].v
    ELSE JUndefined

\* the price field of a flat-list record: value, or close when value is missing
priceField(r) ==
    IF propOf(r, S_value).t \in {"undefined", "null"} THEN propOf(r, S_close) ELSE propOf(r, S_value)

\* a numeric, non-sentinel value: a number, or a string that starts a number
IsNumericValue(v) ==
    \/ v.t = "num"
    \/ v.t = "str" /\ v.s \notin {<<".">>, <<>>} /\ v.s[1] \in Digits

\* the rows of a flat list that the claims call valid
ValidRowCount(rows, nonEmptyDate) ==
    Cardinality({i \in 1..Len(rows) :
        /\ rows[i].t = "obj"
        /\ propOf(rows[i], S_date).t = "str"
        /\ (nonEmptyDate => propOf(rows[i], S_date).s # <<>>)
        /\ IsNumericValue(priceField(rows[i]))})

\* the entries of a keyed-by-date map that the claims call valid
ValidEntryCount(entries) ==
    Cardinality({i \in 1..Len(entries) :
        /\ entries[i].v.t = "obj"
        /\ \E k \in {S_4close, S_5close, S_close} : IsNumericValue(propOf(entries[i].v, k))})

IsFlatPayload(json) ==
    json.t = "obj" /\ Len(json.o) = 1 /\ json.o[1].k = S_data /\ json.o[1].v.t = "arr"

\* C2 (as stated): a successful fetch of a flat-list payload {data: [records]}
\* yields one point per record with a date string and a numeric non-sentinel
\* value, ascending by timestamp.
C2_FlatListFetch ==
    (/\ fSettled /\ fRealApi
     /\ fRes.kind = "http" /\ fRes.ok /\ fRes.body # <<>>
     /\ IsFlatPayload(fRes.body[1])) =>
        /\ Len(fResult[1].points) = ValidRowCount(fRes.body[1].o[1].v.a, FALSE)
        /\ IsAscending(fResult[1].points)

NoteIn(json) == json.t = "obj" /\ \E i \in 1..Len(json.o) : json.o[i].k = S_Note

\* C6: a response whose JSON payload holds the Note field yields no points
\* and nothing of it goes to parseAlphaVantageResponse.
C6_RateLimitNote ==
    (/\ fSettled /\ fRealApi
     /\ fRes.kind = "http" /\ fRes.body # <<>> /\ NoteIn(fRes.body[1])) =>
        /\ fResult[1].points = <<>>
        /\ fResult[1].parsed = <<>>

\* a successful response with the note and, nested under data, a flat list
\* that parseAlphaVantageResponse would turn into two points
C6_Witness ==
    /\ fSettled /\ fImpl = "proxy" /\ fRes.kind = "http" /\ fRes.ok
    /\ fRes.body = << JObj(<<noteProp, Prop(S_data, JObj(<<Prop(S_data, JArr(<<
           Row(<<JStr(IsoDate(2))>>, <<JStr(<<"1", "1", "0">>)>>, <<>>),
           Row(<<JStr(IsoDate(3))>>, <<JNum(10000)>>, <<>>) >>))>>))>>) >>
    /\ fResult[1].points = <<>>

\* C7 (as stated): a flat-list record yields a point only if its date is a
\* non-empty string and its value (or close) is numeric; so a flat list
\* yields at most as many points as it has such records.
C7_FlatRecordAccepted ==
    (pDone /\ IsFlatPayload(pRaw)) =>
        Len(pPoints) <= ValidRowCount(pRaw.o[1].v.a, TRUE)

HasBothShapes(json) ==
    /\ json.t = "obj" /\ Len(json.o) = 2
    /\ \E i, j \in 1..2 :
          /\ json.o[i].k = S_data /\ json.o[i].v.t = "arr"
          /\ json.o[j].k = S_TimeSeriesDaily /\ json.o[j].v.t = "obj"

\* C8 (as stated): a payload with a flat list under data and a keyed-by-date
\* map under a 'Time Series' key, in either key order, gives the valid rows
\* plus the valid entries, equal timestamps kept twice.
C8_BothShapesMerged ==
    (pDone /\ HasBothShapes(pRaw)) =>
        Len(pPoints) = ValidRowCount(propOf(pRaw, S_data).a, TRUE)
                       + ValidEntryCount(propOf(pRaw, S_TimeSeriesDaily).o)


\* C15 (as stated): the proxy's and the client's parseAlphaVantageResponse
\* return equal point sequences for every payload: what the one called
\* returned is what the other returns for the same argument.
C15_ParsersAgree ==
    pDone =>
        IF pImpl = "proxy"
        THEN pPoints \in parseAlphaVantageResponseClient(pRaw)
        ELSE pPoints \in parseAlphaVantageResponse(pRaw)

----------------------------------------------------------------------------
(* Properties of the handler *)

hResponded == hPc = "responded"
theResponse == hResponse[1]

HasCredential(env) ==
    \/ env.vite # <<>> /\ env.vite[1] # ""
    \/ env.alpha # <<>> /\ env.alpha[1] # ""

DebugRequested(req) ==
    \E i \in 1..Len(req.query) :
        /\ req.query[i].k = "debug" /\ req.query[i].v = "1"
        /\ \A j \in 1..(i - 1) : req.query[j].k # "debug"

FailedAnswers == {"neterr", "status500", "notJson"}

AllAbsent(q) ==
    /\ q.currentPrice = <<>> /\ q.change1hPct = <<>>
    /\ q.change4hPct = <<>> /\ q.change24hPct = <<>>

CanonicalIds == <<"WTI", "BRENT", "NATGAS", "GOLD", "SILVER", "COPPER", "WHEAT">>

\* C3: a non-debug GET with a credential is answered, whichever fetches fail
\* and in whatever order they settle, with 7 quotes in canonical order, the
\* quote of every failed symbol having no price and no change.
C3_FanOutResult ==
    (/\ hResponded /\ hReq.method = "GET"
     /\ HasCredential(hEnv) /\ ~DebugRequested(hReq)) =>
        /\ theResponse.status = 200
        /\ theResponse.body.kind = "quotes"
        /\ Len(theResponse.body.quotes) = 7
        /\ \A i \in 1..7 :
              /\ theResponse.body.quotes[i].id = CanonicalIds[i]
              /\ hProv[i][1] \in FailedAnswers => AllAbsent(theResponse.body.quotes[i])

\* symbol 3 failed, the other six succeeded and have a price
C3_Witness ==
    /\ hResponded /\ hReq.method = "GET" /\ ~DebugRequested(hReq)
    /\ theResponse.body.kind = "quotes"
    /\ hProv[3] = <<"neterr">>
    /\ \A i \in (1..7) \ {3} :
          hProv[i] = <<"ok">> /\ theResponse.body.quotes[i].currentPrice # <<>>
    /\ AllAbsent(theResponse.body.quotes[3])

\* C9: a GET without a credential issues no provider fetch and is answered
\* with status 200, an error field and an empty quotes list.
C9_MissingCredential ==
    (hReq.method = "GET" /\ ~HasCredential(hEnv)) =>
        /\ hIssued = <<>>
        /\ hPc \in {"received", "responded"}
        /\ hResponded =>
              /\ theResponse.status = 200
              /\ theResponse.body.kind = "missingKey"
              /\ theResponse.body.error = "Missing API key"
              /\ theResponse.body.quotes = <<>>

C9_Witness ==
    /\ hResponded /\ hReq.method = "GET" /\ DebugRequested(hReq)
    /\ hEnv = [vite |-> <<"">>, alpha |-> <<>>]
    /\ theResponse.status = 200 /\ theResponse.body.quotes = <<>>
    /\ hIssued = <<>>

IsQuoteArrayWithCache(resp) ==
    /\ resp.body.kind = "quotes"
    /\ Len(resp.body.quotes) = 7
    /\ \A i \in 1..7 : resp.body.quotes[i].id = CanonicalIds[i]
    /\ resp.headers.CacheControl # <<>>
    /\ resp.headers.CacheControl[1].public
    /\ resp.headers.CacheControl[1].sMaxage = 5 * 60
    /\ resp.headers.CacheControl[1].staleWhileRevalidate = 1 * 60

\* C10 (as amended): a GET with a credential whose debug parameter is not
\* "1" is answered with the array of 7 quotes and the directives s-maxage of
\* five minutes and stale-while-revalidate of one minute, whatever its other
\* parameters; with debug=1 the answer is the debug object of the WTI fetch,
\* with no cache directive.
C10_QuoteArrayCached ==
    (hResponded /\ hReq.method = "GET" /\ HasCredential(hEnv)) =>
        IF DebugRequested(hReq)
        THEN /\ theResponse.body.kind = "debug"
             /\ theResponse.headers.CacheControl = <<>>
             /\ hIssued = <<"WTI">>
        ELSE IsQuoteArrayWithCache(theResponse)

C10_Witness ==
    /\ hResponded /\ hReq.method = "GET" /\ HasCredential(hEnv)
    /\ hReq.query = <<Param("debug", "0"), Param("foo", "bar")>>
    /\ IsQuoteArrayWithCache(theResponse)

\* C10 (as stated): every GET with a credential is answered with the array
\* of quotes and the cache directives, whatever its query parameters.
C10_Original ==
    (hResponded /\ hReq.method = "GET" /\ HasCredential(hEnv)) =>
        IsQuoteArrayWithCache(theResponse)


FanOutRequest == hReq.method = "GET" /\ HasCredential(hEnv) /\ ~DebugRequested(hReq)

\* C16: for a non-debug GET with a credential there is no response while a
\* fetch is pending (a response there is has all seven fetches issued and
\* settled), and, every fetch settling at last, the response comes.
C16_RespondsAfterAllSettle ==
    /\ []((FanOutRequest /\ hResponse # <<>>) =>
             /\ hIssued = COMMODITY_IDS
             /\ hPending = {}
             /\ \A i \in 1..7 : hProv[i] # <<>> /\ hResults[i] # <<>>)
    /\ [][(FanOutRequest /\ hResponse' # hResponse) => hPending = {}]_vars
    /\ (FanOutRequest /\ hPc = "received") ~> (hResponse # <<>>)

\* the response is there, the fetches having settled each in its way
C16_Witness ==
    /\ FanOutRequest /\ hResponded /\ hPending = {}
    /\ hProv[1] = <<"neterr">> /\ hProv[2] = <<"ok">>
    /\ hProv[7] = <<"neterr">>
    /\ theResponse.status = 200

----------------------------------------------------------------------------
(* Properties of getAllCommodityQuotesMock *)

mSettled == mPc = "settled"

\* the endpoint answered with a success status and a non-empty JSON array
EndpointGaveQuotes ==
    /\ mEndpoint.kind = "http" /\ mEndpoint.ok /\ mEndpoint.body # <<>>
    /\ mEndpoint.body[1].t = "arr" /\ mEndpoint.body[1].a # <<>>

\* C11: getAllCommodityQuotesMock never rejects; it resolves with the body
\* of the endpoint exactly when the response is successful and its body is
\* a non-empty array, and otherwise with seven locally built quotes in
\* canonical symbol order.
C11_MockFallback ==
    mSettled =>
        /\ mResult[1].kind = "resolved"
        /\ IF EndpointGaveQuotes
           THEN /\ mResult[1].value.from = "endpoint"
                /\ mResult[1].value.quotes = mEndpoint.body[1]
           ELSE /\ mResult[1].value.from = "local"
                /\ Len(mResult[1].value.quotes) = 7
                /\ \A i \in 1..7 :
                      /\ mResult[1].value.quotes[i].id = CanonicalIds[i]
                      /\ mResult[1].value.quotes[i] =
                             buildCommodityQuoteFromSeries(CanonicalIds[i], mSeries[i][1])

\* the endpoint cannot be reached, the client has a credential, the
\* provider answers for every symbol but the third
C11_Witness ==
    /\ mSettled /\ mEndpoint = NetworkError /\ mRealApi
    /\ mResult[1].kind = "resolved" /\ mResult[1].value.from = "local"
    /\ Len(mResult[1].value.quotes) = 7
    /\ mResult[1].value.quotes[3].currentPrice = <<>>
    /\ \A i \in (1..7) \ {3} : mResult[1].value.quotes[i].currentPrice # <<>>

----------------------------------------------------------------------------
(* Properties of the PredictionTabsPanel *)

\* C17: whenever the markets tab is active the body shows the markets
\* content of the quotes set last, the empty-state message exactly when
\* there are none; quotes set under another tab are stored and leave the
\* body as it is, and they are shown when markets is selected again.
C17_MarketsShowsLatest ==
    /\ []((tPc = "shown" /\ activeTab = "markets") =>
             /\ tabBody = renderMarketsContent(latestQuotes)
             /\ (tabBody.kind = "empty") <=> (latestQuotes = <<>>)
             /\ tabBody.kind = "table" =>
                   /\ Len(tabBody.rows) = Len(latestQuotes)
                   /\ \A i \in 1..Len(latestQuotes) :
                         tabBody.rows[i].displayName = latestQuotes[i].displayName)
    /\ [][(activeTab # "markets" /\ latestQuotes' # latestQuotes) =>
              (tabBody' = tabBody /\ activeTab' = activeTab)]_vars
    /\ [][(activeTab # "markets" /\ activeTab' = "markets") =>
              (latestQuotes' = latestQuotes
               /\ tabBody' = renderMarketsContent(latestQuotes))]_vars

\* markets is active and shows a table of two quotes: one without data, one
\* that rose by ten per cent
C17_Witness ==
    /\ tPc = "shown" /\ activeTab = "markets"
    /\ latestQuotes = <<emptyQuote("WTI"),
                        buildQuote("GOLD", <<Point(Some(0), 10000), Point(Some(oneDayMs), 11000)>>)>>
    /\ tabBody.kind = "table"
    /\ tabBody.rows[1].price = [dash |-> TRUE]
    /\ tabBody.rows[2].change24h =
           [dash |-> FALSE, plus |-> TRUE, number |-> [sign |-> "", whole |-> 10, frac |-> 0]]
    /\ tabButtons = <<TRUE, FALSE, FALSE, FALSE>>

============================================================================
